---- MODULE Spec2Model ----
(***************************************************************************)
(* Model of src/src/implementations/conv_asm_5x10u2v2f1.cpp:               *)
(*   - ConvAsm5x10u2v2f1::IsCorrect / PrepareForUsage and AlignUp          *)
(*   - ConvHipImplicitGemmBwdDataV1R1Xdlops::GetWorkspaceSize /            *)
(*     IsApplicable / GetSolution                                          *)
(* int is 32 bit two's complement, unsigned is 32 bit.  Values that do not *)
(* fit a 32 bit signed integer are carried as two 16 bit limbs.            *)
(***************************************************************************)
EXTENDS Integers, Sequences, FiniteSets, TLC

VARIABLES build, params, asm_pc, asm_ret, usage,
          ctx, hip_pc, applicable, wsz, solution,
          al_val, al_step, al_pc, al_ret,
          th_pc, th_solver, th_ret

vars == <<build, params, asm_pc, asm_ret, usage,
          ctx, hip_pc, applicable, wsz, solution,
          al_val, al_step, al_pc, al_ret,
          th_pc, th_solver, th_ret>>

asm_vars == <<params, asm_pc, asm_ret, usage>>
hip_vars == <<ctx, hip_pc, applicable, wsz, solution>>
al_vars == <<al_val, al_step, al_pc, al_ret>>
th_vars == <<th_pc, th_solver, th_ret>>

(***************************************************************************)
(* 32 bit integer arithmetic                                               *)
(***************************************************************************)
\* largest value of int
MaxInt == 2147483647

MinInt == -MaxInt - 1

Limb == 2^16

Abs(a) == IF a < 0 THEN -a ELSE a

\* C++ integer division and remainder truncate toward zero (divisor > 0 here)
CDiv(a, b) == IF a >= 0 THEN a \div b ELSE -((-a) \div b)

CRem(a, b) == a - b * CDiv(a, b)

\* does the int product a * b leave the range of int
MulOv(a, b) ==
    /\ a # 0
    /\ b # 0
    /\ a # MinInt
    /\ b # MinInt
    /\ Abs(a) > MaxInt \div Abs(b)
    /\ ~ ( /\ (a < 0) # (b < 0)
           /\ Abs(a) = (MaxInt \div Abs(b)) + 1
           /\ MaxInt % Abs(b) = Abs(b) - 1 )

\* does the int difference a - b leave the range of int
SubOv(a, b) == \/ (b > 0 /\ a < MinInt + b)
               \/ (b < 0 /\ a > MaxInt + b)

\* signed overflow is undefined: the expression then has the unspecified value ub
SMul(a, b, ub) == IF MulOv(a, b) THEN ub ELSE a * b

SSub(a, b, ub) == IF SubOv(a, b) THEN ub ELSE a - b

\* an unsigned 32 bit value as [h, l], value h * 2^16 + l
U32(h, l) == [h |-> h % Limb, l |-> l]

\* conversion int -> unsigned (adds 2^32 to a negative value)
FromInt(v) == [h |-> (v \div Limb) % Limb, l |-> v % Limb]

\* conversion unsigned -> int (modular)
ToInt(x) == IF x.h < Limb \div 2 THEN x.h * Limb + x.l
            ELSE (x.h - Limb) * Limb + x.l

AddU(x, y) == U32(x.h + y.h + ((x.l + y.l) \div Limb), (x.l + y.l) % Limb)

\* x - 1 modulo 2^32
DecU(x) == IF x.l > 0 THEN U32(x.h, x.l - 1) ELSE U32(x.h + Limb - 1, Limb - 1)

\* unsigned division by s, 0 < s < 2^15
DivU(x, s) == U32(x.h \div s, (((x.h % s) * Limb) + x.l) \div s)

\* unsigned product with s modulo 2^32, 0 <= s < 2^15
MulU(x, s) == U32((x.h * s) + ((x.l * s) \div Limb), (x.l * s) % Limb)

\* a size_t (64 bit) as its four 16 bit limbs, the highest first
SizeT(v) == IF v >= 0 THEN <<0, 0, v \div Limb, v % Limb>>
            ELSE <<Limb - 1, Limb - 1, FromInt(v).h, FromInt(v).l>>

\* the product a * b at 64 bit width, 0 <= a < 2^15 and 0 <= b < 2^31
WideProduct(a, b) ==
    LET t0 == a * (b % Limb)
        t1 == a * (b \div Limb) + (t0 \div Limb)
    IN  <<0, t1 \div Limb, t1 % Limb, t0 % Limb>>

(***************************************************************************)
(* AlignUp, lines 53-57                                                    *)
(***************************************************************************)
AlignUp_RoundNext(val, step) == ToInt(MulU(DivU(AddU(FromInt(val), FromInt(step)), step), step))

\* ((val + step - 1) / step) * step, computed in unsigned, returned as int; step > 0
AlignUp(val, step) ==
    ToInt(MulU(DivU(DecU(AddU(FromInt(val), FromInt(step))), step), step))

(***************************************************************************)
(* Compile option strings: a string is the sequence of its lexemes.        *)
(*   SP        one space character                                         *)
(*   Raw(t)    the characters t, written as they stand                     *)
(*   Def(n, v) the characters -D n = v, v a sequence of characters         *)
(***************************************************************************)
SP == [kind |-> "SP", sym |-> " ", val |-> <<>>]

Raw(t) == [kind |-> "RAW", sym |-> t, val |-> <<>>]

Def(name, v) == [kind |-> "D", sym |-> name, val |-> v]

Digit(d) == CASE d = 0 -> "0" [] d = 1 -> "1" [] d = 2 -> "2" [] d = 3 -> "3"
              [] d = 4 -> "4" [] d = 5 -> "5" [] d = 6 -> "6" [] d = 7 -> "7"
              [] d = 8 -> "8" [] d = 9 -> "9"

RECURSIVE NatDigits(_)
NatDigits(n) == IF n < 10 THEN <<Digit(n)>>
                ELSE Append(NatDigits(n \div 10), Digit(n % 10))

\* std::to_string of an integer: its decimal digits, a minus sign first when negative
to_string(n) == IF n >= 0 THEN NatDigits(n) ELSE <<"-">> \o NatDigits(-n)

\* GenerateClangDefsym(stream, name, value): one define token for name = value,
\* a single space between tokens (its code is not part of the sources kept here)
GenerateClangDefsym(stream, name, value) ==
    IF stream = <<>> THEN <<Def(name, to_string(value))>>
    ELSE stream \o <<SP, Def(name, to_string(value))>>

(***************************************************************************)
(* ConvAsm5x10u2v2f1, lines 6-99                                           *)
(***************************************************************************)
\* lines 14-16
device_is_gfx8_9_no_xnack(name) ==
    name \in {"gfx800", "gfx802", "gfx803", "gfx804", "gfx900"}

\* line 28 and line 29; pad * 2 and the subtraction are int arithmetic
min_in_width(p, ub) == SSub(p.kernel_size0, SMul(p.pad0, 2, ub), ub)

min_in_height(p, ub) == SSub(p.kernel_size1, SMul(p.pad1, 2, ub), ub)

\* line 31 and line 32
max_in_width == 8192 - 1

max_in_height == 131077 - 1

\* lines 34-48: the returned conjunction
Restrictions_NoChannelMultiple(p, ub) ==
    /\ p.pad0 >= 0
    /\ p.pad0 <= 5
    /\ p.pad1 >= 0
    /\ p.pad1 <= 5
    /\ p.kernel_stride0 = 2
    /\ p.kernel_stride1 = 2
    /\ p.kernel_size0 = 10
    /\ p.kernel_size1 = 5
    /\ p.n_inputs >= 1
    /\ p.n_outputs >= 1
    /\ p.in_width >= min_in_width(p, ub)
    /\ p.in_width <= max_in_width
    /\ p.in_height >= min_in_height(p, ub)
    /\ p.in_height <= max_in_height
    /\ p.in_layout = "NCHW"

Restrictions(p, ub) ==
    /\ p.pad0 >= 0
    /\ p.pad0 <= 5
    /\ p.pad1 >= 0
    /\ p.pad1 <= 5
    /\ p.kernel_stride0 = 2
    /\ p.kernel_stride1 = 2
    /\ p.kernel_size0 = 10
    /\ p.kernel_size1 = 5
    /\ p.n_inputs >= 1
    /\ CRem(p.n_outputs, 16) = 0
    /\ p.n_outputs >= 1
    /\ p.in_width >= min_in_width(p, ub)
    /\ p.in_width <= max_in_width
    /\ p.in_height >= min_in_height(p, ub)
    /\ p.in_height <= max_in_height
    /\ p.in_layout = "NCHW"

\* lines 6-51.  b is the build: "debug" keeps assert, "release" (NDEBUG) drops it.
\* The result is [abort, ret]: abort when the assertion of line 25 fails.
IsCorrect(p, b, ub) ==
    IF ~p.assembler_available THEN [abort |-> FALSE, ret |-> FALSE]
    ELSE IF ~device_is_gfx8_9_no_xnack(p.device_name) THEN [abort |-> FALSE, ret |-> FALSE]
    ELSE IF ~p.forward THEN [abort |-> FALSE, ret |-> FALSE]
    ELSE IF b = "debug" /\ p.weights_layout # "" THEN [abort |-> TRUE, ret |-> FALSE]
    ELSE [abort |-> FALSE, ret |-> Restrictions(p, ub)]

\* lines 63-65 and 66-68
out_w(p) == CDiv(p.in_width + p.pad0 * 2 + p.kernel_stride0 - p.kernel_size0,
                 p.kernel_stride0)

out_h(p) == CDiv(p.in_height + p.pad1 * 2 + p.kernel_stride1 - p.kernel_size1,
                 p.kernel_stride1)

\* lines 70-82
rmv_code(p) == IF p.rmv = "V1" THEN 1 ELSE (IF p.rmv = "V2" THEN 2 ELSE 3)

asm_options(p) ==
    LET o1 == GenerateClangDefsym(<<>>, "inp_h", p.in_height)
        o2 == GenerateClangDefsym(o1, "inp_w", p.in_width)
        o3 == GenerateClangDefsym(o2, "wei_c", p.n_inputs)
        o4 == GenerateClangDefsym(o3, "wei_k", p.n_outputs)
        o5 == GenerateClangDefsym(o4, "wei_layout", 0)
        o6 == GenerateClangDefsym(o5, "pad_w", p.pad0)
        o7 == GenerateClangDefsym(o6, "pad_h", p.pad1)
    IN  GenerateClangDefsym(o7, "ROCM_METADATA_VERSION", rmv_code(p))

\* line 90: the two factors of the second global work size, both int
gwk1_rows(p) == CDiv(AlignUp(out_h(p), 4), 4)

gwk1_lanes(p) == AlignUp(CDiv(p.n_outputs, 2), 8)

\* an int expression that overflowed has an unspecified value
JunkInts == {MinInt, -1, 0, 1, MaxInt}

\* the size_t pushed by line 90 for the int product a * b.  When the product
\* overflows int (undefined) a build either wraps it to 32 bits and sign-extends,
\* or, relying on no overflow, multiplies at the width of size_t.
UBProduct(a, b) ==
    IF MulOv(a, b) THEN {SizeT(ToInt(MulU(FromInt(b), a))), WideProduct(a, b)}
    ELSE {SizeT(a * b)}

\* lines 84-91 (g_wk is a vector of size_t); prod is the value pushed by line 90
global_work(p, prod) == <<SizeT(AlignUp(out_w(p), 64)), prod, SizeT(p.batch_sz)>>

\* lines 59-99
PrepareForUsage(p, prod) ==
    [comp_options |-> asm_options(p),
     l_wk |-> <<SizeT(64), SizeT(8), SizeT(1)>>,
     g_wk |-> global_work(p, prod),
     kernel_file |-> "conv5x10u2v2f1.s",
     kernel_name |-> "conv5x10u2v2f1"]

(***************************************************************************)
(* ConvHipImplicitGemmBwdDataV1R1Xdlops, lines 138-315.  size_t values are *)
(* plain naturals: the contexts tried keep every product far below 2^64.   *)
(* The helpers declared in implicitgemm_util.hpp are read from the context *)
(* as the value they return for it.                                        *)
(***************************************************************************)
IsFp32(c) == c.dtype = "fp32"

IsFp16(c) == c.dtype = "fp16"

IsBfp16(c) == c.dtype = "bfp16"

\* GetEPackLength(ctx, true), lines 176, 179 and 306
GetEPackLength(c) == c.epack

\* IsXdlopsSupport(ctx), lines 181 and 289
IsXdlopsSupport(c) == c.xdlops

\* miopen::GetTypeSize(miopenFloat), line 152
TypeSizeFloat == 4

\* lines 138-154
GetWorkspaceSize_Fp16Elem(c) == IF IsFp32(c) THEN 0 ELSE c.n * c.c * c.hi * c.wi * 2

GetWorkspaceSize(c) ==
    IF IsFp32(c) THEN 0 ELSE c.n * c.c * c.hi * c.wi * TypeSizeFloat

\* lines 168 and 169: channels per group (size_t division)
k_per_group(c) == c.k \div c.group_counts

c_per_group(c) == c.c \div c.group_counts

\* lines 156-183
IsApplicable_NoGemmN(c) ==
    IF c.direction # "BackwardData" THEN FALSE
    ELSE IF ~c.is2d THEN FALSE
    ELSE IF ~(IsFp32(c) \/ IsFp16(c) \/ IsBfp16(c)) THEN FALSE
    ELSE IF k_per_group(c) % GetEPackLength(c) # 0 THEN FALSE
    ELSE /\ IsXdlopsSupport(c)
         /\ (c_per_group(c) * c.y * c.x) % 128 = 0
         /\ (k_per_group(c) \div GetEPackLength(c)) % 16 = 0

IsApplicable(c) ==
    IF c.direction # "BackwardData" THEN FALSE
    ELSE IF ~c.is2d THEN FALSE
    ELSE IF ~(IsFp32(c) \/ IsFp16(c) \/ IsBfp16(c)) THEN FALSE
    ELSE IF k_per_group(c) % GetEPackLength(c) # 0 THEN FALSE
    ELSE /\ IsXdlopsSupport(c)
         /\ (c.n * c.ho * c.wo) % 128 = 0
         /\ (c_per_group(c) * c.y * c.x) % 128 = 0
         /\ (k_per_group(c) \div GetEPackLength(c)) % 16 = 0

\* lines 208 and 209: the whole channel count c, not the channels per group
gemm_m(c) == c.c * c.y * c.x

gemm_n(c) == c.n * c.ho * c.wo

\* lines 211, 212 and 214
gemm_m_per_block == 128

gemm_n_per_block == 128

block_size == 256

\* line 216
grid_size(c) == (gemm_m(c) \div gemm_m_per_block) * (gemm_n(c) \div gemm_n_per_block)

\* std::string(" -DNAME=") + std::to_string(v)
DefNum(name, v) == <<SP, Def(name, to_string(v))>>

\* std::string(" -DNAME=") + (b ? '1' : '0')
DefChar(name, b) == <<SP, Def(name, IF b THEN <<"1">> ELSE <<"0">>)>>

\* lines 254-293
hip_options_head_NoStd(c) == <<>>

hip_options_head(c) == <<SP, Raw("-std=c++14"), SP>>

hip_options_problem(c) ==
    DefNum("CK_PARAM_PROBLEM_N", c.n) \o
    DefNum("CK_PARAM_PROBLEM_K", c.k) \o
    DefNum("CK_PARAM_PROBLEM_C", c.c) \o
    DefNum("CK_PARAM_PROBLEM_HI", c.hi) \o
    DefNum("CK_PARAM_PROBLEM_WI", c.wi) \o
    DefNum("CK_PARAM_PROBLEM_HO", c.ho) \o
    DefNum("CK_PARAM_PROBLEM_WO", c.wo) \o
    DefNum("CK_PARAM_PROBLEM_Y", c.y) \o
    DefNum("CK_PARAM_PROBLEM_X", c.x) \o
    DefNum("CK_PARAM_PROBLEM_CONV_STRIDE_H", c.conv_stride_h) \o
    DefNum("CK_PARAM_PROBLEM_CONV_STRIDE_W", c.conv_stride_w) \o
    DefNum("CK_PARAM_PROBLEM_CONV_DILATION_H", c.conv_dilation_h) \o
    DefNum("CK_PARAM_PROBLEM_CONV_DILATION_W", c.conv_dilation_w) \o
    DefNum("CK_PARAM_PROBLEM_IN_LEFT_PAD_H", c.in_left_pad_h) \o
    DefNum("CK_PARAM_PROBLEM_IN_LEFT_PAD_W", c.in_left_pad_w) \o
    DefNum("CK_PARAM_PROBLEM_IN_RIGHT_PAD_H", c.in_right_pad_h) \o
    DefNum("CK_PARAM_PROBLEM_IN_RIGHT_PAD_W", c.in_right_pad_w) \o
    DefNum("CK_PARAM_PROBLEM_CONV_GROUP_COUNTS", c.group_counts)

hip_options_tunable(c) ==
    DefNum("CK_PARAM_TUNABLE_BLOCK_SIZE", block_size) \o
    DefNum("CK_PARAM_TUNABLE_GEMM_M_PER_BLOCK", gemm_m_per_block) \o
    DefNum("CK_PARAM_TUNABLE_GEMM_N_PER_BLOCK", gemm_n_per_block) \o
    DefNum("CK_PARAM_TUNABLE_GEMM_K_PER_BLOCK", 16) \o
    DefNum("CK_PARAM_GEMM_M_PER_WAVE", 64) \o
    DefNum("CK_PARAM_GEMM_N_PER_WAVE", 64) \o
    DefNum("CK_PARAM_TUNABLE_GEMM_A_BLOCK_COPY_CLUSTER_LENGTHS_GEMM_K", 4) \o
    DefNum("CK_PARAM_TUNABLE_GEMM_A_BLOCK_COPY_CLUSTER_LENGTHS_GEMM_M", 64) \o
    DefNum("CK_PARAM_TUNABLE_GEMM_A_BLOCK_COPY_SRC_DATA_PER_READ_GEMM_M", 1) \o
    DefNum("CK_PARAM_TUNABLE_GEMM_B_BLOCK_COPY_CLUSTER_LENGTHS_GEMM_K", 8) \o
    DefNum("CK_PARAM_TUNABLE_GEMM_B_BLOCK_COPY_CLUSTER_LENGTHS_GEMM_N", 32) \o
    DefNum("CK_PARAM_TUNABLE_GEMM_B_BLOCK_COPY_SRC_DATA_PER_READ_GEMM_N", 1) \o
    DefNum("CK_PARAM_DEPENDENT_GRID_SIZE", grid_size(c))

hip_options_flags(c) ==
    DefChar("CK_THREADWISE_GEMM_USE_AMD_INLINE_ASM", c.use_amd_inline_asm) \o
    DefChar("CK_USE_AMD_BUFFER_ATOMIC_ADD", c.support_amd_buffer_atomic_add) \o
    DefNum("CK_USE_AMD_XDLOPS", IF IsXdlopsSupport(c) THEN 1 ELSE 0) \o
    DefNum("CK_USE_AMD_XDLOPS_INLINE_ASM", IF c.xdlops_inline_asm THEN 1 ELSE 0) \o
    DefChar("CK_USE_AMD_XDLOPS_EMULATE", c.xdlops_emulate) \o
    <<SP, Def("__HIP_PLATFORM_HCC__", <<"1">>)>>

\* lines 295-311
hip_options_dtype(c) ==
    IF IsFp32(c)
    THEN DefNum("CK_PARAM_TUNABLE_GEMM_A_BLOCK_COPY_DST_DATA_PER_WRITE_GEMM_M", 1) \o
         DefNum("CK_PARAM_TUNABLE_GEMM_B_BLOCK_COPY_DST_DATA_PER_WRITE_GEMM_N", 1)
    ELSE DefNum("CK_PARAM_KPACK_LENGTH", GetEPackLength(c)) \o
         DefNum("CK_PARAM_TUNABLE_GEMM_A_BLOCK_COPY_DST_DATA_PER_WRITE_GEMM_KPACK", 1) \o
         DefNum("CK_PARAM_TUNABLE_GEMM_B_BLOCK_COPY_DST_DATA_PER_WRITE_GEMM_KPACK", 1)

hip_options(c) ==
    hip_options_head(c) \o hip_options_problem(c) \o hip_options_tunable(c) \o
    hip_options_flags(c) \o c.general_compile_options \o hip_options_dtype(c)

\* lines 234-249
hip_kernel_name(c) ==
    IF c.group_counts > 1
    THEN "gridwise_convolution_backward_data_implicit_gemm_v1r1_xdlops_gnchw_gkcyx_gnkhw"
    ELSE "gridwise_convolution_backward_data_implicit_gemm_v1r1_xdlops_nchw_kcyx_nkhw"

hip_kernel_file(c) ==
    IF c.group_counts > 1
    THEN "gridwise_convolution_backward_data_implicit_gemm_v1r1_xdlops_gnchw_gkcyx_gnkhw.cpp"
    ELSE "gridwise_convolution_backward_data_implicit_gemm_v1r1_xdlops_nchw_kcyx_nkhw.cpp"

\* lines 185-315
GetSolution(c) ==
    [workspce_sz |-> GetWorkspaceSize(c),
     l_wk |-> <<block_size, 1, 1>>,
     g_wk |-> <<block_size * grid_size(c), 1, 1>>,
     kernel_file |-> hip_kernel_file(c),
     kernel_name |-> hip_kernel_name(c),
     comp_options |-> hip_options(c)]

(***************************************************************************)
(* The problems handed to ConvAsm5x10u2v2f1                                *)
(***************************************************************************)
\* a problem the solver accepts: in_width 14 gives out_w 3, in_height 23 gives out_h 10
BaseParams ==
    [assembler_available |-> TRUE, device_name |-> "gfx803", forward |-> TRUE,
     weights_layout |-> "", pad0 |-> 0, pad1 |-> 0,
     kernel_stride0 |-> 2, kernel_stride1 |-> 2,
     kernel_size0 |-> 10, kernel_size1 |-> 5,
     n_inputs |-> 1, n_outputs |-> 32, in_width |-> 14, in_height |-> 23,
     in_layout |-> "NCHW", batch_sz |-> 1, rmv |-> "V1"]

\* the values tried for each field, on both sides of every limit the code tests
FieldValues ==
    [assembler_available |-> {TRUE, FALSE},
     device_name |-> {"gfx800", "gfx802", "gfx803", "gfx804", "gfx900", "gfx801", "gfx906"},
     forward |-> {TRUE, FALSE},
     weights_layout |-> {"", "KCHW", "CKHW"},
     pad0 |-> {-1, 0, 1, 5, 6, 1073741824},
     pad1 |-> {-1, 0, 1, 5, 6, 1073741824},
     kernel_stride0 |-> {0, 1, 2, 3},
     kernel_stride1 |-> {0, 1, 2, 3},
     kernel_size0 |-> {5, 9, 10, 11},
     kernel_size1 |-> {4, 5, 6, 10},
     n_inputs |-> {-1, 0, 1, 3},
     n_outputs |-> {-16, 0, 8, 16, 24, 32, 48},
     in_width |-> {-1, 0, 8, 9, 10, 11, 14, 8191, 8192},
     in_height |-> {-1, 0, 3, 4, 5, 6, 23, 131076, 131077},
     in_layout |-> {"NCHW", "NHWC", ""},
     batch_sz |-> {1, 2, 64},
     rmv |-> {"V1", "V2", "V3"}]

FieldChoices == UNION { {<<f, v>> : v \in FieldValues[f]} : f \in DOMAIN FieldValues }

\* the base problem with up to two fields changed
NearBase ==
    { [[BaseParams EXCEPT ![a[1]] = a[2]] EXCEPT ![b[1]] = b[2]] :
        a \in FieldChoices, b \in FieldChoices }

\* accepted and nearly accepted shapes, up to the largest sizes the code admits
ShapeGrid ==
    { [BaseParams EXCEPT !.pad0 = q[1], !.pad1 = q[2], !.in_width = q[3],
                         !.in_height = q[4], !.n_outputs = q[5], !.batch_sz = q[6]] :
        q \in {0, 2, 5} \X {0, 3, 5} \X {0, 9, 10, 14, 15, 8191}
              \X {0, 4, 5, 13, 23, 131069, 131076}
              \X {16, 32, 262128, 262144, 524288} \X {1, 4} }

ParamSpace == NearBase \cup ShapeGrid

(***************************************************************************)
(* The contexts handed to ConvHipImplicitGemmBwdDataV1R1Xdlops             *)
(***************************************************************************)
\* an accepted context: k = 16, c * y * x = 128, n * ho * wo = 128
BaseCtx ==
    [direction |-> "BackwardData", is2d |-> TRUE, dtype |-> "fp32", xdlops |-> TRUE,
     epack |-> 1, group_counts |-> 1,
     n |-> 2, k |-> 16, c |-> 8, hi |-> 8, wi |-> 8, ho |-> 8, wo |-> 8, y |-> 4, x |-> 4,
     conv_stride_h |-> 1, conv_stride_w |-> 1,
     conv_dilation_h |-> 1, conv_dilation_w |-> 1,
     in_left_pad_h |-> 0, in_left_pad_w |-> 0,
     in_right_pad_h |-> 0, in_right_pad_w |-> 0,
     use_amd_inline_asm |-> TRUE, support_amd_buffer_atomic_add |-> TRUE,
     xdlops_inline_asm |-> FALSE, xdlops_emulate |-> FALSE,
     general_compile_options |-> <<>>]

CtxFieldValues ==
    [direction |-> {"BackwardData", "Forward", "BackwardWeights"},
     is2d |-> {TRUE, FALSE},
     dtype |-> {"fp32", "fp16", "bfp16", "int8"},
     xdlops |-> {TRUE, FALSE},
     epack |-> {1, 2, 4},
     group_counts |-> {1, 2, 3, 4},
     n |-> {1, 2, 3, 8, 128},
     k |-> {0, 8, 16, 24, 32, 48, 64},
     c |-> {0, 3, 7, 8, 16, 128},
     hi |-> {1, 8, 224},
     wi |-> {1, 8, 224},
     ho |-> {1, 7, 8, 16},
     wo |-> {1, 7, 8, 16},
     y |-> {1, 3, 4, 8},
     x |-> {1, 3, 4, 8},
     conv_stride_h |-> {1, 2},
     conv_stride_w |-> {1, 2},
     conv_dilation_h |-> {1, 2},
     conv_dilation_w |-> {1, 2},
     in_left_pad_h |-> {0, 1},
     in_left_pad_w |-> {0, 1},
     in_right_pad_h |-> {0, 1},
     in_right_pad_w |-> {0, 1},
     use_amd_inline_asm |-> {TRUE, FALSE},
     support_amd_buffer_atomic_add |-> {TRUE, FALSE},
     xdlops_inline_asm |-> {TRUE, FALSE},
     xdlops_emulate |-> {TRUE, FALSE},
     general_compile_options |->
         {<<>>, <<SP, Def("MIOPEN_USE_FP16", <<"1">>)>>, <<SP, Raw("-O3")>>}]

CtxFieldChoices ==
    UNION { {<<f, v>> : v \in CtxFieldValues[f]} : f \in DOMAIN CtxFieldValues }

\* the base context with up to two fields changed
NearBaseCtx ==
    { [[BaseCtx EXCEPT ![a[1]] = a[2]] EXCEPT ![b[1]] = b[2]] :
        a \in CtxFieldChoices, b \in CtxFieldChoices }

\* channel counts, groups, filters, pack lengths and datatypes in every combination
CtxGrid ==
    { [BaseCtx EXCEPT !.c = q[1], !.group_counts = q[2], !.y = q[3], !.x = q[4],
                      !.k = q[5], !.epack = q[6], !.dtype = q[7], !.n = q[8],
                      !.hi = q[9]] :
        q \in {7, 8, 16, 128} \X {1, 2, 3} \X {4, 8} \X {4, 8}
              \X {16, 48, 64} \X {1, 2, 4} \X {"fp32", "fp16", "bfp16"} \X {2, 3}
              \X {8, 224} }

\* the workspace example: n = 8, c = 3, hi = wi = 224
CtxExamples ==
    { [BaseCtx EXCEPT !.n = 8, !.c = 3, !.hi = 224, !.wi = 224, !.dtype = d] :
        d \in {"fp32", "fp16", "bfp16"} }

CtxSpace == NearBaseCtx \cup CtxGrid \cup CtxExamples

NoSolution == [workspce_sz |-> 0, l_wk |-> <<>>, g_wk |-> <<>>,
               kernel_file |-> "", kernel_name |-> "", comp_options |-> <<>>]

Builds == {"debug", "release"}

NoUsage == [comp_options |-> <<>>, l_wk |-> <<>>, g_wk |-> <<>>,
            kernel_file |-> "", kernel_name |-> ""]

HipIdle == /\ ctx = BaseCtx
           /\ hip_pc = "off"
           /\ applicable = FALSE
           /\ wsz = 0
           /\ solution = NoSolution

AlignIdle == /\ al_val = 0
             /\ al_step = 1
             /\ al_pc = "off"
             /\ al_ret = 0

ThreadsIdle == /\ th_pc = <<>>
               /\ th_solver = <<>>
               /\ th_ret = <<>>

AsmIdle == /\ params = BaseParams
           /\ asm_pc = "off"
           /\ asm_ret = FALSE
           /\ usage = NoUsage

(***************************************************************************)
(* Specification Spec: the caller takes one problem to one solver.         *)
(*   ConvAsm5x10u2v2f1: IsCorrect, then PrepareForUsage when accepted.     *)
(*   ConvHipImplicitGemmBwdDataV1R1Xdlops: IsApplicable, GetWorkspaceSize, *)
(*   GetSolution (which do not check applicability again).                 *)
(***************************************************************************)
InitAsm ==
    /\ params \in ParamSpace
    /\ asm_pc = "start"
    /\ asm_ret = FALSE
    /\ usage = NoUsage
    /\ HipIdle

InitHip ==
    /\ AsmIdle
    /\ ctx \in CtxSpace
    /\ hip_pc = "start"
    /\ applicable = FALSE
    /\ wsz = 0
    /\ solution = NoSolution

Init ==
    /\ build \in Builds
    /\ (InitAsm \/ InitHip)
    /\ AlignIdle
    /\ ThreadsIdle

\* the caller asks IsCorrect(params); an assertion failure ends the process
CallIsCorrect ==
    /\ asm_pc = "start"
    /\ \E ub \in JunkInts :
         LET r == IsCorrect(params, build, ub)
         IN  /\ asm_pc' = IF r.abort THEN "aborted" ELSE "checked"
             /\ asm_ret' = r.ret
    /\ UNCHANGED <<build, params, usage, hip_vars, al_vars, th_vars>>

\* the caller asks PrepareForUsage(params), which it does for accepted problems only
CallPrepareForUsage ==
    /\ asm_pc = "checked"
    /\ asm_ret
    /\ \E prod \in UBProduct(gwk1_rows(params), gwk1_lanes(params)) :
         usage' = PrepareForUsage(params, prod)
    /\ asm_pc' = "prepared"
    /\ UNCHANGED <<build, params, asm_ret, hip_vars, al_vars, th_vars>>

CallIsApplicable ==
    /\ hip_pc = "start"
    /\ applicable' = IsApplicable(ctx)
    /\ hip_pc' = "checked"
    /\ UNCHANGED <<build, ctx, wsz, solution, asm_vars, al_vars, th_vars>>

CallGetWorkspaceSize ==
    /\ hip_pc = "checked"
    /\ wsz' = GetWorkspaceSize(ctx)
    /\ hip_pc' = "sized"
    /\ UNCHANGED <<build, ctx, applicable, solution, asm_vars, al_vars, th_vars>>

CallGetSolution ==
    /\ hip_pc = "sized"
    /\ solution' = GetSolution(ctx)
    /\ hip_pc' = "solved"
    /\ UNCHANGED <<build, ctx, applicable, wsz, asm_vars, al_vars, th_vars>>

Next ==
    \/ CallIsCorrect
    \/ CallPrepareForUsage
    \/ CallIsApplicable
    \/ CallGetWorkspaceSize
    \/ CallGetSolution

Spec == Init /\ [][Next]_vars

(***************************************************************************)
(* Properties of ConvAsm5x10u2v2f1                                         *)
(***************************************************************************)
AsmAnswered == asm_pc \in {"checked", "aborted", "prepared"}

AsmReturned == asm_pc \in {"checked", "prepared"}

GatesPass(p) == /\ p.assembler_available
                /\ p.device_name \in {"gfx800", "gfx802", "gfx803", "gfx804", "gfx900"}
                /\ p.forward

\* C1: with the assembler available, a whitelisted device and direction Forward,
\* IsCorrect returns false, and does nothing else, for every problem whose weight
\* layout is not empty.
C1_NonDefaultLayoutRejected ==
    (AsmAnswered /\ GatesPass(params) /\ params.weights_layout # "")
        => (asm_pc # "aborted" /\ asm_ret = FALSE)

\* the conditions of the claim, on mathematical integers
C3_Conditions(p) ==
    /\ GatesPass(p)
    /\ p.pad0 \in 0..5
    /\ p.pad1 \in 0..5
    /\ p.kernel_stride0 = 2
    /\ p.kernel_stride1 = 2
    /\ p.kernel_size0 = 10
    /\ p.kernel_size1 = 5
    /\ p.n_inputs >= 1
    /\ p.n_outputs >= 1
    /\ \E m \in 1..(p.n_outputs \div 16) : p.n_outputs = 16 * m
    /\ 10 - 2 * p.pad0 <= p.in_width
    /\ p.in_width <= 8191
    /\ 5 - 2 * p.pad1 <= p.in_height
    /\ p.in_height <= 131076
    /\ p.in_layout = "NCHW"

\* C3: for a problem with an unset weight layout IsCorrect returns (it never
\* aborts), and it returns true exactly when every listed condition holds.
C3_IsCorrectExactly ==
    (AsmAnswered /\ params.weights_layout = "")
        => (asm_pc # "aborted" /\ asm_ret = C3_Conditions(params))

\* an accepted problem with an unset layout, and a rejected one that fails a
\* single condition, are both met: here the accepted one at the largest height
C3_Witness ==
    /\ asm_pc = "checked"
    /\ params.weights_layout = ""
    /\ asm_ret
    /\ params.in_height = 131076
    /\ params.pad1 = 5

\* floor of a / b for b > 0, and the smallest multiple of b that is >= a
Floor(a, b) == a \div b

CeilMultiple(a, b) == ((a + b - 1) \div b) * b

C6_out_w(p) == Floor(p.in_width + 2 * p.pad0 - (10 - 2), 2)

C6_out_h(p) == Floor(p.in_height + 2 * p.pad1 - (5 - 2), 2)

C6_rows(p) == CeilMultiple(C6_out_h(p), 4) \div 4

C6_lanes(p) == CeilMultiple(p.n_outputs \div 2, 8)

\* the value of a size_t of at most 47 bits, as its quotient and remainder by 2^16
HighPart(z) == z[2] * Limb + z[3]

LowPart(z) == z[4]

\* the size_t z is the integer v >= 0
IsNat(z, v) == z[1] = 0 /\ z[2] = 0 /\ z[3] = v \div Limb /\ z[4] = v % Limb

\* the size_t z is the exact product a * b (0 < a < 2^15, b >= 0)
IsExactProduct(z, a, b) ==
    /\ z[1] = 0
    /\ z[2] < Limb \div 2
    /\ HighPart(z) = a * (b \div Limb) + ((a * (b % Limb)) \div Limb)
    /\ LowPart(z) = (a * (b % Limb)) % Limb

\* the size_t z is not zero and is a multiple of m, m a divisor of 2^16
IsPositiveMultiple(z, m) == z # <<0, 0, 0, 0>> /\ z[4] % m = 0

\* C6: for every accepted problem the local work size is (64, 8, 1) and the global
\* work size is (AlignUp(out_w, 64), AlignUp(out_h, 4) / 4 * AlignUp(K / 2, 8), batch).
C6_WorkSizes ==
    asm_pc = "prepared"
        => /\ Len(usage.l_wk) = 3
           /\ IsNat(usage.l_wk[1], 64)
           /\ IsNat(usage.l_wk[2], 8)
           /\ IsNat(usage.l_wk[3], 1)
           /\ Len(usage.g_wk) = 3
           /\ IsNat(usage.g_wk[1], CeilMultiple(C6_out_w(params), 64))
           /\ IsExactProduct(usage.g_wk[2], C6_rows(params), C6_lanes(params))
           /\ IsNat(usage.g_wk[3], params.batch_sz)

\* C10: for every accepted problem out_w >= 1 and out_h >= 1, and the first two
\* global work sizes are positive multiples of the local work sizes 64 and 8.
C10_PositiveAligned ==
    /\ (AsmReturned /\ asm_ret) => (out_w(params) >= 1 /\ out_h(params) >= 1)
    /\ asm_pc = "prepared"
         => /\ IsNat(usage.l_wk[1], 64)
            /\ IsNat(usage.l_wk[2], 8)
            /\ IsPositiveMultiple(usage.g_wk[1], 64)
            /\ IsPositiveMultiple(usage.g_wk[2], 8)

(***************************************************************************)
(* Properties of ConvHipImplicitGemmBwdDataV1R1Xdlops                      *)
(***************************************************************************)
HipAnswered == hip_pc \in {"checked", "sized", "solved"}

\* C2: for every accepted context with group count >= 1, M = C * Y * X and
\* N_dim = N * Ho * Wo, the dimensions GetSolution divides by 128, are multiples of 128.
C2_GemmDimsDivisible ==
    (HipAnswered /\ applicable /\ ctx.group_counts >= 1)
        => /\ \E q \in 0..(ctx.c * ctx.y * ctx.x) : ctx.c * ctx.y * ctx.x = 128 * q
           /\ \E q \in 0..(ctx.n * ctx.ho * ctx.wo) : ctx.n * ctx.ho * ctx.wo = 128 * q

Divides(d, m) == \E q \in 0..m : m = d * q

C4_Conditions(c) ==
    LET k == c.k \div c.group_counts
        cg == c.c \div c.group_counts
    IN  /\ c.direction = "BackwardData"
        /\ c.is2d
        /\ c.dtype \in {"fp32", "fp16", "bfp16"}
        /\ c.xdlops
        /\ Divides(c.epack, k)
        /\ Divides(16, k \div c.epack)
        /\ Divides(128, c.n * c.ho * c.wo)
        /\ Divides(128, cg * c.y * c.x)

\* C4: for every context with group count >= 1 IsApplicable returns true exactly
\* when every listed condition holds.
C4_IsApplicableExactly ==
    (HipAnswered /\ ctx.group_counts >= 1) => (applicable = C4_Conditions(ctx))

\* an accepted grouped fp16 context
C4_Witness ==
    /\ hip_pc = "checked"
    /\ applicable
    /\ ctx.group_counts = 2
    /\ ctx.dtype = "fp16"
    /\ ctx.epack = 2

\* C5: GetWorkspaceSize is 0 for fp32 and N * C * Hi * Wi * 4 for fp16 and bfp16,
\* and the solution carries the workspace size of the same context.
C5_WorkspaceSize ==
    /\ hip_pc \in {"sized", "solved"}
         => /\ ctx.dtype = "fp32" => wsz = 0
            /\ ctx.dtype \in {"fp16", "bfp16"} => wsz = ctx.n * ctx.c * ctx.hi * ctx.wi * 4
    /\ hip_pc = "solved" => solution.workspce_sz = wsz

\* the fp16 example: 8 * 3 * 224 * 224 * 4 bytes
C5_Witness ==
    /\ hip_pc = "solved"
    /\ ctx.dtype = "fp16"
    /\ ctx.n = 8
    /\ ctx.hi = 224
    /\ solution.workspce_sz = 4816896

(***************************************************************************)
(* Properties of the compile option strings                                *)
(***************************************************************************)
DigitChars == {"0", "1", "2", "3", "4", "5", "6", "7", "8", "9"}

\* a decimal integer (an optional minus sign, then digits); '0' and '1' are such
IsValue(v) ==
    /\ Len(v) >= 1
    /\ \/ \A i \in 1..Len(v) : v[i] \in DigitChars
       \/ /\ Len(v) >= 2
          /\ v[1] = "-"
          /\ \A i \in 2..Len(v) : v[i] \in DigitChars

IsDefine(t) == t.kind = "D" /\ t.sym # "" /\ IsValue(t.val)

\* tokens -D<SYMBOL>=<value> only, exactly one space between two tokens
OnlyDefines(o) ==
    /\ Len(o) % 2 = 1
    /\ \A i \in 1..Len(o) : IF i % 2 = 1 THEN IsDefine(o[i]) ELSE o[i] = SP

\* tokens -D<SYMBOL>=<value> only, exactly one space before each of them
SpacedDefines(o) ==
    /\ Len(o) % 2 = 0
    /\ \A i \in 1..Len(o) : IF i % 2 = 0 THEN IsDefine(o[i]) ELSE o[i] = SP

HipFixedCount == 2 * (18 + 13 + 6)

HipTailCount(c) == IF c.dtype = "fp32" THEN 2 * 2 ELSE 2 * 3

AlignValues ==
    {0, 1, 3, 4, 7, 8, 10, 16, 63, 64, 65, 130, 131, 8191, 65533, 65536,
     MaxInt - 64, MaxInt - 63, MaxInt - 8, MaxInt - 7, MaxInt - 1, MaxInt}

AlignSteps == {0, 1, 2, 3, 4, 8, 64, 100, 32767}

InitAlignUp ==
    /\ build \in Builds
    /\ al_val \in AlignValues
    /\ al_step \in AlignSteps
    /\ al_pc = "start"
    /\ al_ret = 0
    /\ AsmIdle
    /\ HipIdle
    /\ ThreadsIdle

AlignUpAssertFails ==
    /\ al_pc = "start"
    /\ build = "debug"
    /\ al_step = 0
    /\ al_pc' = "assert_failed"
    /\ UNCHANGED <<build, al_val, al_step, al_ret, asm_vars, hip_vars, th_vars>>

AlignUpDivideByZero ==
    /\ al_pc = "start"
    /\ build = "release"
    /\ al_step = 0
    /\ \/ al_pc' = "fault" /\ al_ret' = al_ret
       \/ al_pc' = "returned" /\ al_ret' \in JunkInts
    /\ UNCHANGED <<build, al_val, al_step, asm_vars, hip_vars, th_vars>>

AlignUpReturns ==
    /\ al_pc = "start"
    /\ al_step > 0
    /\ al_pc' = "returned"
    /\ al_ret' = AlignUp(al_val, al_step)
    /\ UNCHANGED <<build, al_val, al_step, asm_vars, hip_vars, th_vars>>

NextAlignUp == AlignUpAssertFails \/ AlignUpDivideByZero \/ AlignUpReturns

SpecAlignUp == InitAlignUp /\ [][NextAlignUp]_vars

\* what must be added to v to reach the next multiple of s (s > 0)
ToNextMultiple(v, s) == IF v % s = 0 THEN 0 ELSE s - (v % s)

\* ceil(v / s) * s is at most the largest int
CeilFits(v, s) == v <= MaxInt - ToNextMultiple(v, s)

\* r is ceil(v / s) * s
IsCeilMultiple(r, v, s) == CeilFits(v, s) /\ r = v + ToNextMultiple(v, s)

\* C9 as stated: for value >= 0 and step > 0 AlignUp returns ceil(value / step) * step;
\* a call with step = 0 trips the assertion instead of returning.
C9_AlignUpCeil ==
    al_pc \notin {"start", "off"}
        => /\ (al_val >= 0 /\ al_step > 0)
                => (al_pc = "returned" /\ IsCeilMultiple(al_ret, al_val, al_step))
           /\ al_step = 0 => al_pc = "assert_failed"

\* C9 amended: for value >= 0 and step > 0 with ceil(value / step) * step <= 2^31 - 1
\* AlignUp returns ceil(value / step) * step; a call with step = 0 trips the
\* assertion in a build that keeps assertions.
C9_AlignUpCeilInRange ==
    al_pc \notin {"start", "off"}
        => /\ (al_val >= 0 /\ al_step > 0 /\ CeilFits(al_val, al_step))
                => (al_pc = "returned" /\ IsCeilMultiple(al_ret, al_val, al_step))
           /\ (al_step = 0 /\ build = "debug") => al_pc = "assert_failed"

\* AlignUp(130, 4) = 132
C9_Witness ==
    /\ al_pc = "returned"
    /\ al_val = 130
    /\ al_step = 4
    /\ al_ret = 132

(***************************************************************************)
(* Specification SpecThreads: several threads ask both solvers about the   *)
(* same problem and capabilities, in any order and any number of times.    *)
(***************************************************************************)
NumThreads == 2

Threads == 1..NumThreads

ThreadParams ==
    { BaseParams,
      [BaseParams EXCEPT !.n_outputs = 24],
      [BaseParams EXCEPT !.pad0 = 1073741824],
      [BaseParams EXCEPT !.weights_layout = "KCHW"],
      [BaseParams EXCEPT !.device_name = "gfx906"] }

ThreadCtxs ==
    { BaseCtx,
      [BaseCtx EXCEPT !.n = 3],
      [BaseCtx EXCEPT !.direction = "Forward"],
      [BaseCtx EXCEPT !.dtype = "fp16", !.epack = 4, !.k = 64] }

InitThreads ==
    /\ build \in Builds
    /\ params \in ThreadParams
    /\ ctx \in ThreadCtxs
    /\ asm_pc = "off"
    /\ asm_ret = FALSE
    /\ usage = NoUsage
    /\ hip_pc = "off"
    /\ applicable = FALSE
    /\ wsz = 0
    /\ solution = NoSolution
    /\ AlignIdle
    /\ th_pc = [t \in Threads |-> "idle"]
    /\ th_solver = [t \in Threads |-> "none"]
    /\ th_ret = [t \in Threads |-> FALSE]

Running == \A t \in Threads : th_pc[t] # "aborted"

\* thread t enters the applicability check of solver s
ThreadCall(t, s) ==
    /\ Running
    /\ th_pc[t] \in {"idle", "returned"}
    /\ th_pc' = [th_pc EXCEPT ![t] = "called"]
    /\ th_solver' = [th_solver EXCEPT ![t] = s]
    /\ UNCHANGED <<build, asm_vars, hip_vars, al_vars, th_ret>>

\* a result kept in a place every call shares, whichever solver made it
ThreadReturnIsCorrect_Shared(t) ==
    /\ Running
    /\ th_pc[t] = "called"
    /\ th_solver[t] = "ConvAsm5x10u2v2f1"
    /\ \E ub \in JunkInts :
         LET r == IsCorrect(params, build, ub)
             seen == {u \in Threads : th_pc[u] = "returned"}
         IN  /\ ~r.abort
             /\ th_ret' = [th_ret EXCEPT ![t] = IF seen = {} THEN r.ret
                                                ELSE th_ret[CHOOSE u \in seen : TRUE]]
    /\ th_pc' = [th_pc EXCEPT ![t] = "returned"]
    /\ UNCHANGED <<build, asm_vars, hip_vars, al_vars, th_solver>>

\* IsCorrect returns to thread t
ThreadReturnIsCorrect(t) ==
    /\ Running
    /\ th_pc[t] = "called"
    /\ th_solver[t] = "ConvAsm5x10u2v2f1"
    /\ \E ub \in JunkInts :
         LET r == IsCorrect(params, build, ub)
         IN  /\ ~r.abort
             /\ th_ret' = [th_ret EXCEPT ![t] = r.ret]
    /\ th_pc' = [th_pc EXCEPT ![t] = "returned"]
    /\ UNCHANGED <<build, asm_vars, hip_vars, al_vars, th_solver>>

\* the assertion of IsCorrect fails in thread t and ends the process
ThreadAbortIsCorrect(t) ==
    /\ Running
    /\ th_pc[t] = "called"
    /\ th_solver[t] = "ConvAsm5x10u2v2f1"
    /\ \E ub \in JunkInts : IsCorrect(params, build, ub).abort
    /\ th_pc' = [th_pc EXCEPT ![t] = "aborted"]
    /\ UNCHANGED <<build, asm_vars, hip_vars, al_vars, th_solver, th_ret>>

\* IsApplicable returns to thread t
ThreadReturnIsApplicable(t) ==
    /\ Running
    /\ th_pc[t] = "called"
    /\ th_solver[t] = "ConvHipImplicitGemmBwdDataV1R1Xdlops"
    /\ th_ret' = [th_ret EXCEPT ![t] = IsApplicable(ctx)]
    /\ th_pc' = [th_pc EXCEPT ![t] = "returned"]
    /\ UNCHANGED <<build, asm_vars, hip_vars, al_vars, th_solver>>

NextThreads ==
    \E t \in Threads :
        \/ ThreadCall(t, "ConvAsm5x10u2v2f1")
        \/ ThreadCall(t, "ConvHipImplicitGemmBwdDataV1R1Xdlops")
        \/ ThreadReturnIsCorrect(t)
        \/ ThreadAbortIsCorrect(t)
        \/ ThreadReturnIsApplicable(t)

SpecThreads == InitThreads /\ [][NextThreads]_vars

\* what one call alone returns for the problem, written from the two contracts
AloneAnswer(s) ==
    IF s = "ConvAsm5x10u2v2f1"
    THEN GatesPass(params) /\ C3_Conditions(params)
    ELSE C4_Conditions(ctx)

\* C8: whatever the interleaving, every call returns what one call alone returns
\* for the same problem and capabilities, and these are left unchanged.
C8_Pure ==
    /\ [](\A t \in Threads : th_pc[t] = "returned" => th_ret[t] = AloneAnswer(th_solver[t]))
    /\ [][params' = params /\ ctx' = ctx /\ build' = build]_vars

\* both threads hold answers, of different solvers and different value
C8_Witness ==
    /\ th_pc = [t \in Threads |-> "returned"]
    /\ th_solver[1] = "ConvAsm5x10u2v2f1"
    /\ th_solver[2] = "ConvHipImplicitGemmBwdDataV1R1Xdlops"
    /\ th_ret[1] # th_ret[2]

====
